---- MODULE Spec2Model ----
(***************************************************************************)
(* A model of histogram.py: get_audio_info (the streaming aggregation of   *)
(* decoded audio files into one AudioInfo), create_histogram (its caller), *)
(* fmt_length, and the recursive run of main over a thread pool.           *)
(*                                                                         *)
(* Numbers.  A sample is held in fixed point: the integer k stands for the *)
(* amplitude k / FullScale, so 1.0 is FullScale and the bin edges of       *)
(* np.linspace(-1, 1, 1001) are the integers -FullScale + 2*i.  A duration *)
(* is held in ticks of 1 / TicksPerSecond s, which every sample rate of    *)
(* the model divides, so len(samples) / samplerate is exact.  A value that *)
(* db() receives is never negative and is held by its square, as the       *)
(* fraction num / den.                                                     *)
(***************************************************************************)
EXTENDS Integers, Sequences, FiniteSets, Bags, TLC

VARIABLES
    files,          \* get_audio_info's argument: the paths, in order
    decoded,        \* what sf.read gave for each file read so far, in order
    pc,             \* where the call is: start, loop, raised, returned, skipped, done
    idx,            \* the position of the for loop in files
    locals,         \* get_audio_info's local variables
    error,          \* the exception that left get_audio_info, or "none"
    info,           \* <<the AudioInfo get_audio_info returned>>, or <<>> for none
    image,          \* <<the figure create_histogram saved at output_path>>, or <<>>
    stderr,         \* the lines create_histogram printed to sys.stderr
    seconds,        \* fmt_length's argument
    formatted,      \* fmt_length's result, or None
    dirFiles,       \* recursive run: what each directory's matching files decode to
    outputExists,   \* recursive run: whether output_path exists before the run
    overwrite,      \* args.overwrite
    poolSize,       \* args.concurrency
    queue,          \* the executor's work queue: the paths not yet taken
    tpc,            \* per directory, where its create_histogram call is
    tinfo,          \* per directory, the local variable info of its call
    rcParams,       \* pyplot's process-wide rcParams
    figs,           \* pyplot's process-wide figure list; the last is the current one
    saved,          \* per directory, what is at its output_path
    failed          \* the directories whose call printed "Failed to process"

vars == <<files, decoded, pc, idx, locals, error, info, image, stderr, seconds, formatted,
          dirFiles, outputExists, overwrite, poolSize, queue, tpc, tinfo,
          rcParams, figs, saved, failed>>

aggVars == <<files, decoded, pc, idx, locals, error, info, image, stderr>>
fmtVars == <<seconds, formatted>>
batchVars == <<dirFiles, outputExists, overwrite, poolSize, queue, tpc, tinfo,
               rcParams, figs, saved, failed>>

None == "None"

(***************************************************************************)
(* Bounds of the model.                                                    *)
(***************************************************************************)
MaxFiles == 2
MaxTotalSamples == 2

\* len(hist_accumulator)
NumBins == 1000

\* The integer that stands for the amplitude 1.0.
FullScale == NumBins

\* Sample values a decoder may give: out of range on both sides, the two
\* boundaries, zero (an inner bin edge) and a value strictly inside a bin.
SampleValues == {-FullScale - 500, -FullScale, 0, FullScale - 1, FullScale, FullScale + 500}

Channels == {1, 2}
SampleRates == {1, 2}

TicksPerSecond == CHOOSE n \in 1..100 :
    /\ \A r \in SampleRates : n % r = 0
    /\ \A m \in 1..(n - 1) : \E r \in SampleRates : m % r # 0

(***************************************************************************)
(* What sf.read gives: an error, or (samples, samplerate) with samples of  *)
(* shape (frames,) or (frames, channels).  samples is held as the sequence *)
(* of its frames, each a sequence of `channels` values.                    *)
(***************************************************************************)
DecodeError == [ok |-> FALSE]

Decoded(channels, samplerate, frames) ==
    [ok |-> TRUE, channels |-> channels, samplerate |-> samplerate, frames |-> frames]

\* The files whose flattened samples are exactly n long (an empty file is mono).
DecodedFiles(n) ==
    { Decoded(c, r, [i \in 1..(n \div c) |-> [j \in 1..c |-> data[(i - 1) * c + j]]]) :
        c \in {ch \in Channels : n % ch = 0 /\ ch <= n + 1}, r \in SampleRates,
        data \in [1..n -> SampleValues] }

\* What sf.read may give for the next file when at most budget samples are still
\* to be decoded.
Answers(budget) == {DecodeError} \cup UNION { DecodedFiles(k) : k \in 0..budget }

(***************************************************************************)
(* numpy                                                                   *)
(***************************************************************************)
RECURSIVE SumSeq(_)
SumSeq(s) == IF s = <<>> THEN 0 ELSE Head(s) + SumSeq(Tail(s))

RECURSIVE MaxSeq(_)
MaxSeq(s) == IF Len(s) = 1 THEN s[1]
             ELSE LET m == MaxSeq(Tail(s)) IN IF s[1] >= m THEN s[1] ELSE m

Abs(x) == IF x < 0 THEN -x ELSE x

\* samples.ravel(): the frames one after the other (row-major).
RECURSIVE ravel(_)
ravel(frames) == IF frames = <<>> THEN <<>> ELSE Head(frames) \o ravel(Tail(frames))

clip_none(x) == x

\* np.clip(x, -1, 1) of one value
clip(x) == IF x < -FullScale THEN -FullScale ELSE IF x > FullScale THEN FullScale ELSE x

\* np.linspace(-1, 1, len(hist_accumulator) + 1)
linspace == [i \in 0..NumBins |-> -FullScale + (i * 2 * FullScale) \div NumBins]

\* np.searchsorted(edges, x, side="right") between the positions lo and hi: the
\* number of edges that are at most x.
RECURSIVE searchsorted(_, _, _, _)
searchsorted(edges, x, lo, hi) ==
    IF lo >= hi THEN lo
    ELSE LET mid == (lo + hi) \div 2 IN
         IF edges[mid] <= x THEN searchsorted(edges, x, mid + 1, hi)
         ELSE searchsorted(edges, x, lo, mid)

BinsOfHalfOpen(x, edges) ==
    LET n == Cardinality(DOMAIN edges) - 1 IN
    IF x < edges[0] \/ x >= edges[n] THEN {}
    ELSE {searchsorted(edges, x, 0, n + 1) - 1}

\* The bins np.histogram counts x in: bin b holds edges[b] <= x < edges[b + 1], the
\* last bin its right edge too, and a value outside the edges is in none.
BinsOf(x, edges) ==
    LET n == Cardinality(DOMAIN edges) - 1 IN
    IF x < edges[0] \/ x > edges[n] THEN {}
    ELSE IF x = edges[n] THEN {n - 1}
    ELSE {searchsorted(edges, x, 0, n + 1) - 1}

\* np.histogram(samples, bins=edges)[0].  A vector of counts is held as the bag of
\* its bins: bin b has the count CopiesIn(b, v), zero for a bin that is not in it.
RECURSIVE histogram(_, _)
histogram(samples, edges) ==
    IF samples = <<>> THEN EmptyBag
    ELSE SetToBag(BinsOf(Head(samples), edges)) (+) histogram(Tail(samples), edges)

(***************************************************************************)
(* db and the values it is applied to.  Sq(num, den) is the non-negative   *)
(* real whose square is num / den.  20 * log10(v) is held as Log10(v): it  *)
(* is 0.0 exactly when v = 1 and at most 0.0 exactly when v <= 1.          *)
(***************************************************************************)
Sq(num, den) == [num |-> num, den |-> den]

\* -np.inf
NegInf == [finite |-> FALSE, log10 |-> Sq(0, 1)]

\* 20 * np.log10(value), for value > 0
Log10(value) == [finite |-> TRUE, log10 |-> value]

dbOfEpsilon(value) ==
    IF value.num > 0 THEN Log10(value) ELSE Log10(Sq(1, FullScale * FullScale))

db(value) == IF value.num > 0 THEN Log10(value) ELSE NegInf

IsZeroDb(d) == d.finite /\ d.log10.num = d.log10.den

AtMostZeroDb(d) == ~d.finite \/ d.log10.num <= d.log10.den

(***************************************************************************)
(* get_audio_info                                                          *)
(***************************************************************************)
\* The locals as lines 137-143 set them; np.zeros(1000) is the vector of zero counts.
InitLocals ==
    [total_tracks |-> 0, total_samples |-> 0, total_length |-> 0, max_peak |-> 0,
     squared_sum |-> 0, hist_accumulator |-> EmptyBag]

bin_edges == linspace

sf_read_swallowing(file) == IF file.ok THEN file ELSE Decoded(1, 1, <<<<0>>>>)

\* sf.read(file), given the decoder's answer for the file: the answer itself, an
\* error included.
sf_read(file) == file

DurationOfRavelled(samples, samplerate) ==
    (Len(ravel(samples)) * TicksPerSecond) \div samplerate

\* len(samples) / samplerate, of the array as read: len is its first dimension.
Duration(samples, samplerate) == (Len(samples) * TicksPerSecond) \div samplerate

\* np.clip(samples.ravel(), -1, 1)
ClipRavel(samples) == LET flat == ravel(samples) IN [k \in DOMAIN flat |-> clip(flat[k])]

Overwrite(acc, hist) == hist

\* hist_accumulator += hist
Accumulate(acc, hist) == acc (+) hist

\* One pass of the loop body, lines 147-155, from the locals l: the locals it leaves
\* and the exception that ended it, if any.  np.max of an empty array raises
\* ValueError, after lines 148-151 have run.
LoopBody(l, file) ==
    LET r == sf_read(file) IN
    IF ~r.ok THEN [error |-> "DecodeError", locals |-> l]
    ELSE
      LET samples == ClipRavel(r.frames)
          l1 == [l EXCEPT !.total_tracks = @ + 1,
                          !.total_length = @ + Duration(r.frames, r.samplerate),
                          !.total_samples = @ + Len(samples)]
      IN IF Len(samples) = 0 THEN [error |-> "ValueError", locals |-> l1]
         ELSE
           LET peak == MaxSeq([k \in DOMAIN samples |-> Abs(samples[k])])
               hist == histogram(samples, bin_edges)
           IN [error |-> "none",
               locals |-> [l1 EXCEPT
                   !.max_peak = IF @ >= peak THEN @ ELSE peak,
                   !.squared_sum = @ + SumSeq([k \in DOMAIN samples |-> samples[k] * samples[k]]),
                   !.hist_accumulator = Accumulate(@, hist)]]

\* Lines 160-166.
AudioInfo(l) ==
    [tracks |-> l.total_tracks,
     length |-> l.total_length,
     peak |-> db(Sq(l.max_peak * l.max_peak, FullScale * FullScale)),
     rms |-> db(Sq(2 * l.squared_sum, l.total_samples * FullScale * FullScale)),
     histogram |-> [bins |-> l.hist_accumulator, edges |-> bin_edges]]

\* Lines 157-166, from the locals the loop left.
Conclude(l) ==
    IF l.total_samples = 0
    THEN [error |-> "RuntimeError: no audio to process", info |-> <<>>]
    ELSE [error |-> "none", info |-> <<AudioInfo(l)>>]

\* The for loop, lines 146-155, over the answers fs from the locals l: it stops at
\* the first exception.
RECURSIVE Loop(_, _)
Loop(l, fs) ==
    IF fs = <<>> THEN [error |-> "none", locals |-> l]
    ELSE LET step == LoopBody(l, Head(fs)) IN
         IF step.error # "none" THEN step ELSE Loop(step.locals, Tail(fs))

\* The whole call on files that decode to fs: what it raises and what it returns.
get_audio_info(fs) ==
    LET end == Loop(InitLocals, fs) IN
    IF end.error # "none" THEN [error |-> end.error, info |-> <<>>]
    ELSE Conclude(end.locals)

\* What lines 98-111 put in plt.rcParams.
DarkStyle == "dark"

\* The figure plt.subplots makes, line 113, under the rcParams style.
BlankFigure(style) == [style |-> style, title |-> <<>>, info |-> <<>>]

\* The figure once lines 114-123 have drawn on it: its title and the record plotted.
Figure(style, title, i) == [style |-> style, title |-> <<title>>, info |-> <<i>>]

InitAgg ==
    /\ files \in { [i \in 1..n |-> i] : n \in 0..MaxFiles }
    /\ decoded = <<>>
    /\ pc = "start"
    /\ idx = 0
    /\ locals = None
    /\ error = "none"
    /\ info = <<>>
    /\ image = <<>>
    /\ stderr = <<>>

\* create_histogram, lines 89-90: no matching file, nothing is called.
ReturnNoFiles ==
    /\ pc = "start"
    /\ Len(files) = 0
    /\ pc' = "skipped"
    /\ UNCHANGED <<files, decoded, idx, locals, error, info, image, stderr>>

\* get_audio_info is entered: lines 136-144.
CallGetAudioInfo ==
    /\ pc = "start"
    /\ pc' = "loop"
    /\ idx' = 1
    /\ locals' = InitLocals
    /\ UNCHANGED <<files, decoded, error, info, image, stderr>>

\* One pass of the for loop, lines 146-155.
LoopIteration ==
    /\ pc = "loop"
    /\ idx <= Len(files)
    /\ \E answer \in Answers(MaxTotalSamples - locals.total_samples) :
        LET step == LoopBody(locals, answer) IN
        /\ decoded' = Append(decoded, answer)
        /\ locals' = step.locals
        /\ error' = step.error
        /\ pc' = IF step.error = "none" THEN "loop" ELSE "raised"
        /\ idx' = IF step.error = "none" THEN idx + 1 ELSE idx
    /\ UNCHANGED <<files, info, image, stderr>>

\* The loop is over: lines 157-166.
Finish ==
    /\ pc = "loop"
    /\ idx > Len(files)
    /\ LET end == Conclude(locals) IN
        /\ error' = end.error
        /\ info' = end.info
        /\ pc' = IF end.error = "none" THEN "returned" ELSE "raised"
    /\ UNCHANGED <<files, decoded, idx, locals, image, stderr>>

\* create_histogram, lines 94-96: the exception is printed and the call returns.
HandleError ==
    /\ pc = "raised"
    /\ Len(files) > 0
    /\ stderr' = Append(stderr, <<"Failed to process", error>>)
    /\ pc' = "done"
    /\ UNCHANGED <<files, decoded, idx, locals, error, info, image>>

\* create_histogram, lines 98-131, alone in the process: the figure is drawn and saved.
Render ==
    /\ pc = "returned"
    /\ Len(files) > 0
    /\ image' = <<Figure(DarkStyle, "input", info[1])>>
    /\ pc' = "done"
    /\ UNCHANGED <<files, decoded, idx, locals, error, info, stderr>>

IdleFmt == seconds = None /\ formatted = None

IdleBatch ==
    /\ dirFiles = <<>> /\ outputExists = <<>> /\ overwrite = FALSE /\ poolSize = 0
    /\ queue = <<>> /\ tpc = <<>> /\ tinfo = <<>> /\ rcParams = "default" /\ figs = <<>>
    /\ saved = <<>> /\ failed = {}

Init == InitAgg /\ IdleFmt /\ IdleBatch

Next ==
    \/ ReturnNoFiles /\ UNCHANGED <<fmtVars, batchVars>>
    \/ CallGetAudioInfo /\ UNCHANGED <<fmtVars, batchVars>>
    \/ LoopIteration /\ UNCHANGED <<fmtVars, batchVars>>
    \/ Finish /\ UNCHANGED <<fmtVars, batchVars>>
    \/ HandleError /\ UNCHANGED <<fmtVars, batchVars>>
    \/ Render /\ UNCHANGED <<fmtVars, batchVars>>

Spec == Init /\ [][Next]_vars

(***************************************************************************)
(* fmt_length.  Its argument is the float whole + tenths / 10; the result  *)
(* is held as the sequence of its characters.                              *)
(***************************************************************************)
MaxHours == 25

Hours == 0..MaxHours \cup {99, 100}
Minutes == {0, 1, 30, 59}
Secs == {0, 1, 30, 58, 59}

Durations ==
    { [whole |-> h * 3600 + m * 60 + sec, tenths |-> t] :
        h \in Hours, m \in Minutes, sec \in Secs, t \in 0..9 }

truncate(x) == x.whole

\* round(x) of a float with no ndigits: the nearest integer, a tie going to the even
\* one.
round(x) ==
    IF x.tenths < 5 THEN x.whole
    ELSE IF x.tenths > 5 THEN x.whole + 1
    ELSE IF x.whole % 2 = 0 THEN x.whole ELSE x.whole + 1

\* divmod(a, b) for a >= 0 and b > 0
divmod(a, b) == <<a \div b, a % b>>

DigitChars == <<"0", "1", "2", "3", "4", "5", "6", "7", "8", "9">>

\* str(n) for n >= 0
RECURSIVE str(_)
str(n) == IF n < 10 THEN <<DigitChars[n + 1]>>
          ELSE str(n \div 10) \o <<DigitChars[(n % 10) + 1]>>

\* f"{n:02}" for n >= 0: the decimal digits, zero-filled on the left to two.
Format02(n) == IF Len(str(n)) < 2 THEN <<"0">> \o str(n) ELSE str(n)

\* Lines 169-171.
fmt_length(x) ==
    LET hs == divmod(round(x), 3600)
        ms == divmod(hs[2], 60)
    IN Format02(hs[1]) \o <<":">> \o Format02(ms[1]) \o <<":">> \o Format02(ms[2])

IdleAgg ==
    /\ files = <<>> /\ decoded = <<>> /\ pc = "idle" /\ idx = 0 /\ locals = None
    /\ error = "none" /\ info = <<>> /\ image = <<>> /\ stderr = <<>>

InitFmt ==
    /\ seconds \in Durations
    /\ formatted = <<>>
    /\ IdleAgg
    /\ IdleBatch

FmtLength ==
    /\ formatted = <<>>
    /\ formatted' = <<fmt_length(seconds)>>
    /\ UNCHANGED <<seconds, aggVars, batchVars>>

NextFmt == FmtLength

SpecFmt == InitFmt /\ [][NextFmt]_vars

(***************************************************************************)
(* Properties of fmt_length, under SpecFmt.                                *)
(***************************************************************************)
\* The positions of ":" in s.
Colons(s) == {k \in DOMAIN s : s[k] = ":"}

IsDigits(s) == \A k \in DOMAIN s : \E d \in DOMAIN DigitChars : DigitChars[d] = s[k]

\* The number a sequence of digits writes.
RECURSIVE ValueOf(_)
ValueOf(s) ==
    IF s = <<>> THEN 0
    ELSE 10 * ValueOf(SubSeq(s, 1, Len(s) - 1))
         + (CHOOSE d \in 0..9 : DigitChars[d + 1] = s[Len(s)])

\* C7: fmt_length(s) is "HH:MM:SS": three fields of digits, MM and SS of two digits
\* and at most 59, HH of two digits or more with no zero in front of a longer one,
\* and the whole number of seconds T they write, HH * 3600 + MM * 60 + SS, is within
\* 0.5 of s; 3661 gives "01:01:01", 59.6 gives "00:01:00", 90000 gives "25:00:00".
C7_FmtLength ==
    (formatted # <<>>) =>
        LET out == formatted[1]
            c1 == CHOOSE k \in Colons(out) : \A j \in Colons(out) : k <= j
            c2 == CHOOSE k \in Colons(out) : \A j \in Colons(out) : k >= j
            HH == SubSeq(out, 1, c1 - 1)
            MM == SubSeq(out, c1 + 1, c2 - 1)
            SS == SubSeq(out, c2 + 1, Len(out))
            T == ValueOf(HH) * 3600 + ValueOf(MM) * 60 + ValueOf(SS)
            s10 == seconds.whole * 10 + seconds.tenths
        IN /\ Cardinality(Colons(out)) = 2
           /\ IsDigits(HH) /\ IsDigits(MM) /\ IsDigits(SS)
           /\ Len(MM) = 2 /\ Len(SS) = 2 /\ Len(HH) >= 2
           /\ Len(HH) > 2 => HH[1] # "0"
           /\ ValueOf(MM) <= 59 /\ ValueOf(SS) <= 59
           /\ 10 * T - s10 <= 5 /\ s10 - 10 * T <= 5
           /\ seconds = [whole |-> 3661, tenths |-> 0] =>
                 out = <<"0", "1", ":", "0", "1", ":", "0", "1">>
           /\ seconds = [whole |-> 59, tenths |-> 6] =>
                 out = <<"0", "0", ":", "0", "1", ":", "0", "0">>
           /\ seconds = [whole |-> 90000, tenths |-> 0] =>
                 out = <<"2", "5", ":", "0", "0", ":", "0", "0">>

C7_RoundedUpPastADay ==
    /\ formatted # <<>>
    /\ seconds = [whole |-> 359999, tenths |-> 5]
    /\ formatted[1] = <<"1", "0", "0", ":", "0", "0", ":", "0", "0">>

(***************************************************************************)
(* main in recursive mode, lines 71-74: create_histogram is mapped over    *)
(* the root and its subdirectories by a ThreadPoolExecutor.  A task is     *)
(* named by its directory; pyplot's rcParams and figure list are shared by *)
(* all the threads.                                                        *)
(***************************************************************************)
MaxWorkers == 2

\* chain((args.input,), args.input.rglob("*/")): the paths of the traversal, the root
\* first; here the root and one subdirectory.
Paths == <<"root", "sub">>

Dirs == {Paths[i] : i \in DOMAIN Paths}

Tone == Decoded(1, 1, << <<FullScale>> >>)

\* What the matching files of a directory may decode to: no matching file, one good
\* file, a good file and then one that does not decode.
DirContents == { <<>>, <<Tone>>, <<Tone, DecodeError>> }

\* The image a directory holds from an earlier run.
OldImage == [style |-> "old", title |-> <<>>, info |-> <<>>]

InitBatch ==
    /\ dirFiles \in [Dirs -> DirContents]
    /\ outputExists \in [Dirs -> BOOLEAN]
    /\ overwrite \in BOOLEAN
    /\ poolSize \in 1..MaxWorkers
    /\ queue = Paths
    /\ tpc = [d \in Dirs |-> "queued"]
    /\ tinfo = [d \in Dirs |-> <<>>]
    /\ rcParams = "default"
    /\ figs = <<>>
    /\ saved = [d \in Dirs |-> IF outputExists[d] THEN <<OldImage>> ELSE <<>>]
    /\ failed = {}
    /\ IdleAgg
    /\ IdleFmt

\* The tasks a worker thread is running.
Running == {d \in Dirs : tpc[d] \notin {"queued", "done"}}

\* A worker thread takes the next path of the queue and enters create_histogram.
TakeTask(d) ==
    /\ queue # <<>>
    /\ d = Head(queue)
    /\ Cardinality(Running) < poolSize
    /\ queue' = Tail(queue)
    /\ tpc' = [tpc EXCEPT ![d] = "check"]
    /\ UNCHANGED <<dirFiles, outputExists, overwrite, poolSize, tinfo, rcParams, figs,
                   saved, failed>>

\* Lines 79-83: an existing output is left alone unless --overwrite is given.
CheckOutput(d) ==
    /\ tpc[d] = "check"
    /\ tpc' = [tpc EXCEPT ![d] = IF ~overwrite /\ saved[d] # <<>> THEN "done" ELSE "glob"]
    /\ UNCHANGED <<dirFiles, outputExists, overwrite, poolSize, queue, tinfo, rcParams,
                   figs, saved, failed>>

\* Lines 85-90: the matching files; none, and the call returns.
Glob(d) ==
    /\ tpc[d] = "glob"
    /\ tpc' = [tpc EXCEPT ![d] = IF Len(dirFiles[d]) = 0 THEN "done" ELSE "call"]
    /\ UNCHANGED <<dirFiles, outputExists, overwrite, poolSize, queue, tinfo, rcParams,
                   figs, saved, failed>>

ExceptionEndsTheRun(d) ==
    /\ failed' = failed \cup {d}
    /\ tpc' = [tpc EXCEPT ![d] = "crashed"]
    /\ queue' = <<>>
    /\ UNCHANGED tinfo

\* Lines 94-96: the exception is printed and this call returns.
ExceptionCaught(d) ==
    /\ failed' = failed \cup {d}
    /\ tpc' = [tpc EXCEPT ![d] = "done"]
    /\ UNCHANGED <<queue, tinfo>>

\* Lines 92-96: get_audio_info on the directory's files.
Aggregate(d) ==
    /\ tpc[d] = "call"
    /\ LET end == get_audio_info(dirFiles[d]) IN
        IF end.error # "none" THEN ExceptionCaught(d)
        ELSE /\ tinfo' = [tinfo EXCEPT ![d] = end.info]
             /\ tpc' = [tpc EXCEPT ![d] = "rcParams"]
             /\ UNCHANGED <<queue, failed>>
    /\ UNCHANGED <<dirFiles, outputExists, overwrite, poolSize, rcParams, figs, saved>>

\* Lines 98-111: plt.rcParams.update
UpdateRcParams(d) ==
    /\ tpc[d] = "rcParams"
    /\ rcParams' = DarkStyle
    /\ tpc' = [tpc EXCEPT ![d] = "subplots"]
    /\ UNCHANGED <<dirFiles, outputExists, overwrite, poolSize, queue, tinfo, figs, saved,
                   failed>>

\* Line 113: plt.subplots makes a figure and makes it the current one.
Subplots(d) ==
    /\ tpc[d] = "subplots"
    /\ figs' = Append(figs, [num |-> d, content |-> BlankFigure(rcParams)])
    /\ tpc' = [tpc EXCEPT ![d] = "draw"]
    /\ UNCHANGED <<dirFiles, outputExists, overwrite, poolSize, queue, tinfo, rcParams,
                   saved, failed>>

\* Lines 114-123: the call draws on its own figure and axes.
Draw(d) ==
    /\ tpc[d] = "draw"
    /\ figs' = [k \in DOMAIN figs |->
                  IF figs[k].num = d
                  THEN [figs[k] EXCEPT !.content = Figure(@.style, d, tinfo[d][1])]
                  ELSE figs[k]]
    /\ tpc' = [tpc EXCEPT ![d] = "savefig"]
    /\ UNCHANGED <<dirFiles, outputExists, overwrite, poolSize, queue, tinfo, rcParams,
                   saved, failed>>

\* plt.gcf(): the current figure is the last of pyplot's list.
gcf == Len(figs)

\* Lines 128-129: plt.savefig saves the current figure at this call's output_path.
Savefig(d) ==
    /\ tpc[d] = "savefig"
    /\ saved' = [saved EXCEPT ![d] = <<figs[gcf].content>>]
    /\ tpc' = [tpc EXCEPT ![d] = "close"]
    /\ UNCHANGED <<dirFiles, outputExists, overwrite, poolSize, queue, tinfo, rcParams,
                   figs, failed>>

\* Line 131: plt.close(fig) takes the call's own figure off the list.
Close(d) ==
    /\ tpc[d] = "close"
    /\ figs' = SelectSeq(figs, LAMBDA f : f.num # d)
    /\ tpc' = [tpc EXCEPT ![d] = "done"]
    /\ UNCHANGED <<dirFiles, outputExists, overwrite, poolSize, queue, tinfo, rcParams,
                   saved, failed>>

NextBatch ==
    \E d \in Dirs :
        \/ TakeTask(d) /\ UNCHANGED <<aggVars, fmtVars>>
        \/ CheckOutput(d) /\ UNCHANGED <<aggVars, fmtVars>>
        \/ Glob(d) /\ UNCHANGED <<aggVars, fmtVars>>
        \/ Aggregate(d) /\ UNCHANGED <<aggVars, fmtVars>>
        \/ UpdateRcParams(d) /\ UNCHANGED <<aggVars, fmtVars>>
        \/ Subplots(d) /\ UNCHANGED <<aggVars, fmtVars>>
        \/ Draw(d) /\ UNCHANGED <<aggVars, fmtVars>>
        \/ Savefig(d) /\ UNCHANGED <<aggVars, fmtVars>>
        \/ Close(d) /\ UNCHANGED <<aggVars, fmtVars>>

\* Leaving the with block waits for every task: a thread that can take a step is
\* scheduled in the end.
FairBatch == InitBatch /\ [][NextBatch]_vars /\ WF_vars(NextBatch)

(***************************************************************************)
(* Properties of the recursive run, under FairBatch.                       *)
(***************************************************************************)
AllDone == \A d \in Dirs : tpc[d] = "done"

\* The call for d returns at line 83, before it reads any file.
Skipped(d) == ~overwrite /\ outputExists[d]

\* What the directory held before the run.
Before(d) == IF outputExists[d] THEN <<OldImage>> ELSE <<>>

\* C8: every directory's create_histogram call is run to the end in the end, whatever
\* the other directories do and whatever the pool size; a call whose get_audio_info
\* fails prints the failure and leaves the output path as it was, and every other
\* call that has matching files and no earlier output leaves an image there.
C8_BatchNeverHalts ==
    /\ <>AllDone
    /\ [](\A d \in Dirs : (tpc[d] = "done" /\ ~Skipped(d) /\ dirFiles[d] # <<>>) =>
            IF get_audio_info(dirFiles[d]).error # "none"
            THEN d \in failed /\ saved[d] = Before(d)
            ELSE d \notin failed /\ saved[d] # <<>> /\ saved[d] # <<OldImage>>)

C8_OneFailedOneSaved ==
    /\ AllDone
    /\ \E d \in Dirs : d \in failed
    /\ \E d \in Dirs : d \notin failed /\ ~outputExists[d] /\ saved[d] # <<>>

\* C9: whatever the interleaving of the threads, a call that has saved an image
\* saved the figure a sequential run saves: the one drawn, under the dark style,
\* with its own directory's title and AudioInfo.
C9_SavedFigureIsOwn ==
    \A d \in Dirs : (tpc[d] \in {"close", "done"} /\ tinfo[d] # <<>>) =>
        saved[d] = <<Figure(DarkStyle, d, get_audio_info(dirFiles[d]).info[1])>>

(***************************************************************************)
(* Properties of get_audio_info and of its caller, under Spec.             *)
(***************************************************************************)
\* The call is over: it raised or it returned.
Ended == pc \in {"raised", "returned", "done"}

\* Every file of the list has been read, and sf.read gave samples for each.
AllRead == Len(decoded) = Len(files) /\ \A i \in DOMAIN decoded : decoded[i].ok

\* The samples sf.read gave so far, flattened, all files together.
RECURSIVE RawSamples(_)
RawSamples(fs) ==
    IF fs = <<>> THEN <<>>
    ELSE (IF Head(fs).ok THEN ravel(Head(fs).frames) ELSE <<>>) \o RawSamples(Tail(fs))

CountAtLeast(s, v) == Cardinality({k \in DOMAIN s : s[k] >= v})
CountAtMost(s, v) == Cardinality({k \in DOMAIN s : s[k] <= v})

LastBin == NumBins - 1

\* C1: get_audio_info fails with "no audio to process" exactly when the files decode
\* to zero samples in all (the empty list and lists of zero-length files included),
\* and whenever every file decodes and at least one sample was decoded it returns an
\* AudioInfo whose tracks is the number of files, at least 1.
C1_NoAudioExactlyWhenNoSamples ==
    (Ended /\ AllRead) =>
        LET total == Len(RawSamples(decoded)) IN
        /\ (total = 0) <=> (error = "RuntimeError: no audio to process")
        /\ (total > 0) => /\ info # <<>>
                          /\ info[1].tracks = Len(files)
                          /\ info[1].tracks >= 1

\* C2: once sf.read has failed for a file, at whatever position, the call has raised
\* that error and returned no AudioInfo, and create_histogram prints the failure and
\* saves no image.
C2_AllOrNothing ==
    (\E i \in DOMAIN decoded : ~decoded[i].ok) =>
        /\ pc \in {"raised", "done"}
        /\ error = "DecodeError"
        /\ info = <<>>
        /\ image = <<>>
        /\ (pc = "done" => stderr = << <<"Failed to process", "DecodeError">> >>)

C2_FailsAfterGoodFile ==
    /\ pc = "done"
    /\ Len(decoded) = 2
    /\ decoded[1].ok
    /\ ~decoded[2].ok

Permuted(fs, p) == [i \in DOMAIN fs |-> fs[p[i]]]

\* fs with its files i and i + 1 joined into one file.
Joined(fs, i) ==
    SubSeq(fs, 1, i - 1)
    \o << Decoded(fs[i].channels, fs[i].samplerate, fs[i].frames \o fs[i + 1].frames) >>
    \o SubSeq(fs, i + 2, Len(fs))

\* fs with its file i cut in two after frame j.
Cut(fs, i, j) ==
    SubSeq(fs, 1, i - 1)
    \o << Decoded(fs[i].channels, fs[i].samplerate, SubSeq(fs[i].frames, 1, j)),
          Decoded(fs[i].channels, fs[i].samplerate,
                  SubSeq(fs[i].frames, j + 1, Len(fs[i].frames))) >>
    \o SubSeq(fs, i + 2 - 1, Len(fs))

SameCounts(l1, l2) ==
    /\ l1.hist_accumulator = l2.hist_accumulator
    /\ l1.total_samples = l2.total_samples
    /\ l1.max_peak = l2.max_peak

\* C3: when the call returns, the call on any permutation of the same files returns
\* the same bin counts, tracks, sample count and peak; the call on the same samples
\* chunked differently (two neighbouring files joined, or one file cut in two)
\* returns the same bin counts; and the histogram of two files is the bin-wise sum
\* of the histograms of each file aggregated alone.
C3_OrderAndChunkingIndependent ==
    (pc = "returned") =>
        /\ \A p \in Permutations(DOMAIN decoded) :
              LET other == Loop(InitLocals, Permuted(decoded, p)) IN
              /\ other.error = "none"
              /\ SameCounts(other.locals, locals)
              /\ other.locals.total_tracks = locals.total_tracks
              /\ get_audio_info(Permuted(decoded, p)).info[1].histogram = info[1].histogram
        /\ \A i \in 1..(Len(decoded) - 1) :
              (decoded[i].channels = decoded[i + 1].channels
               /\ decoded[i].samplerate = decoded[i + 1].samplerate) =>
                  LET other == Loop(InitLocals, Joined(decoded, i)) IN
                  other.error = "none" /\ SameCounts(other.locals, locals)
        /\ \A i \in DOMAIN decoded : \A j \in 1..(Len(decoded[i].frames) - 1) :
              LET other == Loop(InitLocals, Cut(decoded, i, j)) IN
              other.error = "none" /\ SameCounts(other.locals, locals)
        /\ Len(decoded) = 2 =>
              info[1].histogram.bins =
                  get_audio_info(<<decoded[1]>>).info[1].histogram.bins
                  (+) get_audio_info(<<decoded[2]>>).info[1].histogram.bins

C3_TwoFilesInDifferentBins ==
    /\ pc = "returned"
    /\ Len(decoded) = 2
    /\ decoded[1].channels = decoded[2].channels
    /\ decoded[1].samplerate = decoded[2].samplerate
    /\ histogram(ClipRavel(decoded[1].frames), bin_edges)
         # histogram(ClipRavel(decoded[2].frames), bin_edges)

IsFullScale(x) == x = FullScale \/ x = -FullScale

\* C4: in a returned AudioInfo the last bin holds every sample that is 1.0 or above
\* and the first bin every sample that is -1.0 or below; for a single file whose
\* samples are all exactly 1.0 or -1.0 the peak is 0.0 dB and the first and last bins
\* hold all the counts, every other bin being zero.
C4_BoundarySamplesCounted ==
    (pc = "returned") =>
        LET raw == RawSamples(decoded)
            bins == info[1].histogram.bins
        IN /\ CopiesIn(LastBin, bins) >= CountAtLeast(raw, FullScale)
           /\ CopiesIn(0, bins) >= CountAtMost(raw, -FullScale)
           /\ (Len(decoded) = 1 /\ \A k \in DOMAIN raw : IsFullScale(raw[k])) =>
                 /\ IsZeroDb(info[1].peak)
                 /\ CopiesIn(0, bins) + CopiesIn(LastBin, bins) = Len(raw)
                 /\ BagToSet(bins) \subseteq {0, LastBin}

C4_FileOfBothBoundaries ==
    /\ pc = "returned"
    /\ Len(decoded) = 1
    /\ ravel(decoded[1].frames) = <<FullScale, -FullScale>>

IsSilence(f) == f.ok /\ Len(f.frames) > 0 /\ \A k \in DOMAIN ravel(f.frames) : ravel(f.frames)[k] = 0

\* C5: once the one file of a one-file list has been read as N > 0 samples that are
\* all 0, the call does not raise, and when it is over it has returned tracks = 1,
\* peak = rms = -infinity and all N counts in one bin, whose edges bound 0.0.
C5_SilenceIsValid ==
    (Len(files) = 1 /\ Len(decoded) = 1 /\ IsSilence(decoded[1])) =>
        /\ error = "none"
        /\ pc \in {"loop", "returned", "done"}
        /\ (pc # "loop") =>
              /\ info[1].tracks = 1
              /\ info[1].peak = NegInf
              /\ info[1].rms = NegInf
              /\ \E b \in 0..LastBin :
                    /\ info[1].histogram.edges[b] <= 0
                    /\ 0 <= info[1].histogram.edges[b + 1]
                    /\ BagToSet(info[1].histogram.bins) = {b}
                    /\ CopiesIn(b, info[1].histogram.bins) = Len(ravel(decoded[1].frames))

C5_SilentFileReturned ==
    /\ pc = "returned"
    /\ Len(decoded) = 1
    /\ IsSilence(decoded[1])
    /\ Len(ravel(decoded[1].frames)) = 2

FlatTicks(f) == (Len(ravel(f.frames)) * TicksPerSecond) \div f.samplerate
FrameTicks(f) == (Len(f.frames) * TicksPerSecond) \div f.samplerate

RECURSIVE TotalFlatTicks(_)
TotalFlatTicks(fs) == IF fs = <<>> THEN 0 ELSE FlatTicks(Head(fs)) + TotalFlatTicks(Tail(fs))

RECURSIVE TotalFrameTicks(_)
TotalFrameTicks(fs) == IF fs = <<>> THEN 0 ELSE FrameTicks(Head(fs)) + TotalFrameTicks(Tail(fs))

\* C6, as claimed: the returned length is the sum over the files of the file's
\* flattened sample count, the count it adds to total_samples, over its sample rate.
C6_LengthFromFlattenedCount ==
    (pc = "returned") => info[1].length = TotalFlatTicks(decoded)

\* C6, amended: the returned length is the sum over the files of the file's number
\* of frames (len(samples) as read, the flattened count over the channel count) over
\* its sample rate, while total_samples is the sum of the flattened counts; and the
\* length of a two-file call is the sum of the lengths of each file's own call.
C6_LengthFromFrames ==
    (pc = "returned") =>
        /\ info[1].length = TotalFrameTicks(decoded)
        /\ locals.total_samples = Len(RawSamples(decoded))
        /\ \A i \in DOMAIN decoded :
              FrameTicks(decoded[i]) * decoded[i].channels = FlatTicks(decoded[i])
        /\ Len(decoded) = 2 =>
              info[1].length = get_audio_info(<<decoded[1]>>).info[1].length
                            + get_audio_info(<<decoded[2]>>).info[1].length

C6_StereoFileReturned ==
    /\ pc = "returned"
    /\ \E i \in DOMAIN decoded : decoded[i].channels = 2 /\ Len(decoded[i].frames) > 0

\* C10: after every pass of the loop, and in every returned AudioInfo, the bin counts
\* add up to total_samples, only the bins 0..999 have counts, each a positive
\* integer, the running peak is within [0, 1], and the returned peak is at most 0 dB.
C10_MassConserved ==
    (pc \in {"loop", "raised", "returned", "done"}) =>
        /\ BagCardinality(locals.hist_accumulator) = locals.total_samples
        /\ locals.total_samples = Len(RawSamples(decoded))
        /\ BagToSet(locals.hist_accumulator) \subseteq 0..LastBin
        /\ \A b \in BagToSet(locals.hist_accumulator) :
              CopiesIn(b, locals.hist_accumulator) \in Nat
        /\ locals.max_peak >= 0
        /\ locals.max_peak <= FullScale
        /\ (info # <<>>) =>
              /\ BagCardinality(info[1].histogram.bins) = locals.total_samples
              /\ AtMostZeroDb(info[1].peak)

C10_ClippedSamplesCounted ==
    /\ pc = "returned"
    /\ Len(decoded) = 2
    /\ \E k \in DOMAIN RawSamples(decoded) : RawSamples(decoded)[k] > FullScale
    /\ \E k \in DOMAIN RawSamples(decoded) : RawSamples(decoded)[k] < -FullScale

====
